---- MODULE Spec2Model ----
(***************************************************************************)
(* Model of the JSONL training-data validator and of the two upload        *)
(* operations that call it:                                                *)
(*   "web" : src/src/main.py               validate_jsonl / upload_file    *)
(*   "cli" : src/src/openai_upload_file.py validate_jsonl / upload_file    *)
(*                                                                         *)
(* A text is a sequence of lines (the pieces between '\n').  A line is     *)
(* described by what json.loads makes of it and by what Python's `in` and  *)
(* subscript operators do on the resulting value.                          *)
(***************************************************************************)
EXTENDS Integers, Sequences, FiniteSets, TLC

\* Longest text, in lines, that a request carries.
MaxLines == 3

None == "None"

(***************************************************************************)
(* JSON values.  t is the Python type after json.loads:                    *)
(*   "scalar" int/float/bool/None : `k in v` raises TypeError              *)
(*   "str"                        : `k in v` is a substring test           *)
(*   "list"                       : `k in v` is element membership         *)
(*   "map"                        : `k in v` is key membership             *)
(* has is the set of the strings k for which `k in v` is True.             *)
(***************************************************************************)
Elem(t, has) == [t |-> t, has |-> has]

GoodMsg    == Elem("map", {"role", "content"})
RoleOnly   == Elem("map", {"role"})
StrMsg     == Elem("str", {"role", "content"})
ScalarMsg  == Elem("scalar", {})

\* A line of the text.  t = "blank": empty after strip(); t = "bad": not
\* parseable by json.loads; otherwise the parsed value.  mlist tells whether
\* data['messages'] is a list and msgs holds its elements.
Line(t, has, mlist, msgs) == [t |-> t, has |-> has, mlist |-> mlist, msgs |-> msgs]

Blank        == Line("blank", {}, FALSE, <<>>)
Bad          == Line("bad", {}, FALSE, <<>>)
ScalarLine   == Line("scalar", {}, FALSE, <<>>)
StrLine      == Line("str", {}, FALSE, <<>>)
StrMessages  == Line("str", {"messages"}, FALSE, <<>>)
EmptyMap     == Line("map", {}, FALSE, <<>>)
Legacy       == Line("map", {"prompt", "completion"}, FALSE, <<>>)
PromptOnly   == Line("map", {"prompt"}, FALSE, <<>>)
Chat         == Line("map", {"messages"}, TRUE, <<GoodMsg>>)
ChatEmpty    == Line("map", {"messages"}, TRUE, <<>>)
ChatNotList  == Line("map", {"messages"}, FALSE, <<>>)
ChatRoleOnly == Line("map", {"messages"}, TRUE, <<GoodMsg, RoleOnly>>)
ChatStrMsg   == Line("map", {"messages"}, TRUE, <<StrMsg>>)
ChatScalar   == Line("map", {"messages"}, TRUE, <<ScalarMsg>>)
ChatLegacy   == Line("map", {"messages", "prompt", "completion"}, TRUE, <<GoodMsg>>)

LineSet == {Blank, Bad, ScalarLine, StrLine, StrMessages, EmptyMap, Legacy,
            PromptOnly, Chat, ChatEmpty, ChatNotList, ChatRoleOnly,
            ChatStrMsg, ChatScalar, ChatLegacy}

Texts == UNION {[1..n -> LineSet] : n \in 0..MaxLines}

Impls == {"web", "cli"}

(***************************************************************************)
(* Python primitives                                                       *)
(***************************************************************************)
\* `k in v` raises TypeError when v is not iterable
InRaises(v) == v.t = "scalar"

\* `k in v`
In(k, v) == k \in v.has

\* v['messages'] raises TypeError unless v is a mapping
SubscriptRaises(v) == v.t # "map"

\* `not line.strip()`
IsBlank(line) == line.t = "blank"

\* json.loads(line) raises json.JSONDecodeError
JSONDecodeError(line) == line.t = "bad"

(***************************************************************************)
(* Splitting the text into the lines the loop enumerates                   *)
(***************************************************************************)
RECURSIVE LeadingBlanks(_)
LeadingBlanks(s) ==
    IF s = <<>> \/ ~IsBlank(Head(s)) THEN 0 ELSE 1 + LeadingBlanks(Tail(s))

RECURSIVE TrailingBlanks(_)
TrailingBlanks(s) ==
    IF s = <<>> \/ ~IsBlank(s[Len(s)]) THEN 0
    ELSE 1 + TrailingBlanks(SubSeq(s, 1, Len(s) - 1))

\* content.strip().split('\n'): strip() removes every leading and trailing
\* whitespace character, newlines included, so the blank lines at both ends
\* of the text are gone before the split; ''.split('\n') is [''].
StripSplit(content) ==
    IF LeadingBlanks(content) = Len(content) THEN <<Blank>>
    ELSE SubSeq(content, LeadingBlanks(content) + 1,
                Len(content) - TrailingBlanks(content))

\* for line_num, line in enumerate(f, 1): every line of the file
FileLines(content) == content

IterLines(impl, content) ==
    IF impl = "web" THEN StripSplit(content) ELSE FileLines(content)

(***************************************************************************)
(* One iteration of the validation loop                                    *)
(***************************************************************************)
\* DetectFormat with the two tests in the other order: prompt and completion
\* win over messages.
DetectFormat_legacy_first(format_type, data) ==
    IF format_type # None THEN format_type
    ELSE IF In("prompt", data) /\ In("completion", data) THEN "legacy"
    ELSE IF In("messages", data) THEN "chat"
    ELSE None

\* DetectFormat without the `if format_type is None` guard: every record
\* is looked at again.
DetectFormat_relock(format_type, data) ==
    IF In("messages", data) THEN "chat"
    ELSE IF In("prompt", data) /\ In("completion", data) THEN "legacy"
    ELSE format_type

\* if format_type is None: if 'messages' in data ... elif 'prompt' in data
\* and 'completion' in data ...   (data is iterable here)
DetectFormat(format_type, data) ==
    IF format_type # None THEN format_type
    ELSE IF In("messages", data) THEN "chat"
    ELSE IF In("prompt", data) /\ In("completion", data) THEN "legacy"
    ELSE None

\* for msg in messages: if 'role' not in msg or 'content' not in msg
RECURSIVE CheckMsgs(_)
CheckMsgs(msgs) ==
    IF msgs = <<>> THEN "pass"
    ELSE IF InRaises(Head(msgs)) THEN "TypeError"
    ELSE IF ~In("role", Head(msgs)) \/ ~In("content", Head(msgs)) THEN "badmsg"
    ELSE CheckMsgs(Tail(msgs))

\* the block under `if format_type == 'chat'`.  main.py reports a non-list
\* and an empty list with one message, openai_upload_file.py with two.
CheckChat(impl, data) ==
    IF InRaises(data) THEN "TypeError"
    ELSE IF ~In("messages", data) THEN "nokey"
    ELSE IF SubscriptRaises(data) THEN "TypeError"
    ELSE IF ~data.mlist THEN (IF impl = "web" THEN "invalid" ELSE "notlist")
    ELSE IF Len(data.msgs) = 0 THEN (IF impl = "web" THEN "invalid" ELSE "empty")
    ELSE CheckMsgs(data.msgs)

\* the block under `elif format_type == 'legacy'`
CheckLegacy(data) ==
    IF InRaises(data) THEN "TypeError"
    ELSE IF ~In("prompt", data) \/ ~In("completion", data) THEN "legacy"
    ELSE "pass"

\* The body of the try block for one non-blank line: ft is format_type after
\* the line, v is "pass" when the loop goes on to the next line, "TypeError"
\* when an exception other than JSONDecodeError is raised, and otherwise the
\* reason of the `return False`.
ProcessLine(impl, format_type, line) ==
    IF JSONDecodeError(line) THEN [ft |-> format_type, v |-> "json"]
    ELSE IF format_type = None /\ InRaises(line)
        THEN [ft |-> format_type, v |-> "TypeError"]
    ELSE LET ft == DetectFormat(format_type, line) IN
         [ft |-> ft,
          v  |-> IF ft = "chat" THEN CheckChat(impl, line)
                 ELSE IF ft = "legacy" THEN CheckLegacy(line)
                 ELSE "pass"]

(***************************************************************************)
(* What validate_jsonl hands to its caller.  st = "ok": is_valid True;     *)
(* st = "rejected": is_valid False; st = "raised": an exception leaves the *)
(* function.  line is the number printed after the character for "line" in *)
(* the message, 0 when the message has none.  label and count are the      *)
(* format label and the sample count of the success message.               *)
(***************************************************************************)
Outcome(st, kind, line, label, count) ==
    [st |-> st, kind |-> kind, line |-> line, label |-> label, count |-> count]

NoOutcome == Outcome("none", "", 0, "", 0)

\* format_label with the two labels exchanged
format_label_swapped(format_type) ==
    IF format_type = "chat" THEN "legacy" ELSE "chat"

\* format_label = "..." if format_type == 'chat' else "..."
format_label(format_type) == IF format_type = "chat" THEN "chat" ELSE "legacy"

\* return True, f"{format_label}: {line_count}...", line_count
Success(format_type, line_count) ==
    Outcome("ok", "", 0, format_label(format_type), line_count)

\* return False, f"...{line_num}: ...", 0 ; a TypeError leaves main.py's
\* function and is turned into a rejection without a line number by the
\* outer `except Exception` of openai_upload_file.py
Failure(impl, v, line_num) ==
    IF v # "TypeError" THEN Outcome("rejected", v, line_num, "", 0)
    ELSE IF impl = "web" THEN Outcome("raised", "TypeError", 0, "", 0)
    ELSE Outcome("rejected", "exception", 0, "", 0)

\* The whole loop from line i on, as a function of the enumerated lines.
RECURSIVE Run(_, _, _, _, _)
Run(impl, ls, i, cnt, ft) ==
    IF i > Len(ls) THEN Success(ft, cnt)
    ELSE IF IsBlank(ls[i]) THEN Run(impl, ls, i + 1, cnt, ft)
    ELSE LET p == ProcessLine(impl, ft, ls[i]) IN
         IF p.v = "pass" THEN Run(impl, ls, i + 1, cnt + 1, p.ft)
         ELSE Failure(impl, p.v, i)

\* validate_jsonl as a function of the text
Validate(impl, content) == Run(impl, IterLines(impl, content), 1, 0, None)

(***************************************************************************)
(* State                                                                   *)
(***************************************************************************)
VARIABLES
    pc,           \* position of the upload operation
    impl,         \* which program runs: "web" (main.py) or "cli"
    content,      \* the text of the file being uploaded
    lines,        \* the lines the loop enumerates
    line_num,     \* enumerate() index of the last line taken
    line_count,   \* non-blank lines seen so far
    format_type,  \* None, "chat" or "legacy"
    outcome,      \* what validate_jsonl returned (or that it raised)
    created,      \* remote files.create calls issued by this operation
    response,     \* what the caller of upload_file gets
    detail        \* the message that goes with the response

\* State of the other operations of the repository
VARIABLES
    remembered,     \* an earlier call of validate_jsonl: its text and result
    lf_text,        \* an LF-separated text given to both validate_jsonl
    web_result,     \* what main.py validate_jsonl returned for lf_text
    cli_result,     \* what openai_upload_file.py validate_jsonl returned
    job_status,     \* status of the fine-tuning job at the remote service
    status,         \* wait_for_completion: the status of the last poll
    retrieves,      \* wait_for_completion: jobs.retrieve calls issued
    target,         \* what the CLI is asked to delete: "model" or "file"
    confirmation,   \* delete_model / delete_file: what input() returned
    resource,       \* the remote model or file still exists
    deletes,        \* remote delete calls issued
    OPENAI_API_KEY, \* the environment variable
    endpoint,       \* the /api/* endpoint serving the request
    body,           \* chat_api: the JSON body of the request
    remote_calls    \* remote API calls issued by the endpoint, in order

purevars == <<remembered>>
eqvars == <<lf_text, web_result, cli_result>>
waitvars == <<job_status, status, retrieves>>
delvars == <<target, confirmation, resource, deletes>>
apivars == <<OPENAI_API_KEY, endpoint, body, remote_calls>>

\* everything but the variables of the upload operation
extvars == <<purevars, eqvars, waitvars, delvars, apivars>>

upvars == <<pc, impl, content, lines, line_num, line_count, format_type,
            outcome, created, response, detail>>

vars == <<pc, impl, content, lines, line_num, line_count, format_type,
          outcome, created, response, detail, extvars>>

valvars == <<lines, line_num, line_count, format_type, outcome>>

\* no upload in progress
UpIdle ==
    /\ pc = "idle"
    /\ impl = "none"
    /\ content = <<>>
    /\ lines = <<>>
    /\ line_num = 0
    /\ line_count = 0
    /\ format_type = None
    /\ outcome = NoOutcome
    /\ created = 0
    /\ response = "-"
    /\ detail = NoOutcome

NoCall == [content |-> <<>>, outcome |-> NoOutcome]

\* no JSON body has been read
NoData == [model |-> [k |-> "-", s |-> <<>>],
           message |-> [k |-> "-", s |-> <<>>],
           system_prompt |-> [k |-> "-", s |-> <<>>]]

PureIdle == remembered = NoCall

EqIdle ==
    /\ lf_text = <<>>
    /\ web_result = NoOutcome
    /\ cli_result = NoOutcome

WaitIdle ==
    /\ job_status = "-"
    /\ status = "-"
    /\ retrieves = 0

DelIdle ==
    /\ target = "-"
    /\ confirmation = <<>>
    /\ resource = TRUE
    /\ deletes = 0

ApiIdle ==
    /\ OPENAI_API_KEY = "set"
    /\ endpoint = "-"
    /\ body = NoData
    /\ remote_calls = <<>>

\* none of the other operations is in progress
ExtIdle == PureIdle /\ EqIdle /\ WaitIdle /\ DelIdle /\ ApiIdle

Init == UpIdle /\ ExtIdle

Msg(kind) == Outcome("msg", kind, 0, "", 0)

\* main.py upload_file, up to the API key check: get_openai_client()
\* returns None when OPENAI_API_KEY is unset or empty.
WebRequest ==
    /\ pc = "idle"
    /\ impl' = "web"
    /\ \E api_key \in BOOLEAN :
         IF api_key
         THEN /\ pc' = "read"
              /\ UNCHANGED <<response, detail>>
         ELSE /\ pc' = "done"
              /\ response' = "500"
              /\ detail' = Msg("no_api_key")
    /\ UNCHANGED <<content, created>>
    /\ UNCHANGED valvars
    /\ UNCHANGED extvars

\* openai_upload_file.py upload_file, up to the call of validate_jsonl: the
\* API key check and the os.path.exists check.
CliRequest ==
    /\ pc = "idle"
    /\ impl' = "cli"
    /\ \E api_key \in BOOLEAN, exists \in BOOLEAN :
         IF api_key /\ exists
         THEN /\ pc' = "read"
              /\ UNCHANGED <<response, detail>>
         ELSE /\ pc' = "done"
              /\ response' = "None"
              /\ detail' = Msg(IF api_key THEN "no_file" ELSE "no_api_key")
    /\ UNCHANGED <<content, created>>
    /\ UNCHANGED valvars
    /\ UNCHANGED extvars

\* content = await file.read(); content.decode('utf-8') in main.py, the
\* file at file_path in openai_upload_file.py; then the first lines of
\* validate_jsonl up to the loop.  Bytes that are not UTF-8 make decode
\* raise in main.py before validate_jsonl is called.
ReadContent ==
    /\ pc = "read"
    /\ \E text \in Texts, utf8 \in BOOLEAN :
         IF utf8 \/ impl = "cli"
         THEN /\ content' = text
              /\ lines' = IterLines(impl, text)
              /\ pc' = "loop"
              /\ UNCHANGED <<response, detail>>
         ELSE /\ pc' = "done"
              /\ response' = "500"
              /\ detail' = Msg("unhandled")
              /\ UNCHANGED <<content, lines>>
    /\ line_num' = 0
    /\ line_count' = 0
    /\ format_type' = None
    /\ UNCHANGED <<impl, outcome, created>>
    /\ UNCHANGED extvars

\* ValidateLine that records the error and goes on to the next line instead
\* of returning: the last error wins.
ValidateLine_keep_going ==
    /\ pc = "loop"
    /\ line_num < Len(lines)
    /\ line_num' = line_num + 1
    /\ LET line == lines[line_num + 1] IN
         IF IsBlank(line)
         THEN UNCHANGED <<pc, line_count, format_type, outcome>>
         ELSE LET p == ProcessLine(impl, format_type, line) IN
              /\ line_count' = line_count + 1
              /\ format_type' = p.ft
              /\ IF p.v = "pass"
                 THEN UNCHANGED <<pc, outcome>>
                 ELSE /\ outcome' = Failure(impl, p.v, line_num + 1)
                      /\ pc' = IF line_num + 1 = Len(lines)
                               THEN "returned" ELSE "loop"
    /\ UNCHANGED <<impl, content, lines, created, response, detail>>
    /\ UNCHANGED extvars

\* one iteration of `for line_num, line in enumerate(lines, 1)`
ValidateLine ==
    /\ pc = "loop"
    /\ line_num < Len(lines)
    /\ line_num' = line_num + 1
    /\ LET line == lines[line_num + 1] IN
         IF IsBlank(line)
         THEN UNCHANGED <<pc, line_count, format_type, outcome>>
         ELSE LET p == ProcessLine(impl, format_type, line) IN
              /\ line_count' = line_count + 1
              /\ format_type' = p.ft
              /\ IF p.v = "pass"
                 THEN UNCHANGED <<pc, outcome>>
                 ELSE /\ outcome' = Failure(impl, p.v, line_num + 1)
                      /\ pc' = "returned"
    /\ UNCHANGED <<impl, content, lines, created, response, detail>>
    /\ UNCHANGED extvars

\* the loop is exhausted: the two statements after it
ValidateReturn ==
    /\ pc = "loop"
    /\ line_num = Len(lines)
    /\ outcome' = Success(format_type, line_count)
    /\ pc' = "returned"
    /\ UNCHANGED <<impl, content, lines, line_num, line_count, format_type,
                   created, response, detail>>
    /\ UNCHANGED extvars

\* UploadGate without the `if not is_valid` test: a rejected text goes on
\* to the remote call.
UploadGate_unchecked ==
    /\ pc = "returned"
    /\ IF outcome.st # "raised"
       THEN /\ pc' = "create"
            /\ UNCHANGED <<response, detail>>
       ELSE /\ pc' = "done"
            /\ response' = IF impl = "cli" THEN "None" ELSE "500"
            /\ detail' = Msg("unhandled")
    /\ UNCHANGED <<impl, content, created>>
    /\ UNCHANGED valvars
    /\ UNCHANGED extvars

\* upload_file after validate_jsonl: `if not is_valid:` raise
\* HTTPException(400, message) / print and return None; an exception out of
\* validate_jsonl is not caught by main.py upload_file and becomes the
\* framework's 500 response.
UploadGate ==
    /\ pc = "returned"
    /\ IF outcome.st = "ok"
       THEN /\ pc' = "create"
            /\ UNCHANGED <<response, detail>>
       ELSE /\ pc' = "done"
            /\ response' = IF impl = "cli" THEN "None"
                           ELSE IF outcome.st = "raised" THEN "500" ELSE "400"
            /\ detail' = IF outcome.st = "raised" THEN Msg("unhandled") ELSE outcome
    /\ UNCHANGED <<impl, content, created>>
    /\ UNCHANGED valvars
    /\ UNCHANGED extvars

\* client.files.create(...) inside try/except Exception
RemoteCreate ==
    /\ pc = "create"
    /\ created' = created + 1
    /\ \E remote_ok \in BOOLEAN :
         IF remote_ok
         THEN /\ response' = IF impl = "web" THEN "200" ELSE "uploaded"
              /\ detail' = outcome
         ELSE /\ response' = IF impl = "web" THEN "500" ELSE "None"
              /\ detail' = Msg("remote_error")
    /\ pc' = "done"
    /\ UNCHANGED <<impl, content>>
    /\ UNCHANGED valvars
    /\ UNCHANGED extvars

\* the operation is over; the next request starts from scratch
Finish ==
    /\ pc = "done"
    /\ pc' = "idle"
    /\ impl' = "none"
    /\ content' = <<>>
    /\ lines' = <<>>
    /\ line_num' = 0
    /\ line_count' = 0
    /\ format_type' = None
    /\ outcome' = NoOutcome
    /\ created' = 0
    /\ response' = "-"
    /\ detail' = NoOutcome
    /\ UNCHANGED extvars

Next ==
    \/ WebRequest
    \/ CliRequest
    \/ ReadContent
    \/ ValidateLine
    \/ ValidateReturn
    \/ UploadGate
    \/ RemoteCreate
    \/ Finish

Spec == Init /\ [][Next]_vars

TypeOK ==
    /\ pc \in {"idle", "read", "loop", "returned", "create", "done"}
    /\ impl \in Impls \cup {"none"}
    /\ content \in Texts
    /\ line_num \in 0..Len(lines)
    /\ line_count \in 0..line_num
    /\ format_type \in {None, "chat", "legacy"}
    /\ created \in 0..1

\* the loop, run line by line, returns what the function of the text returns
StepwiseAgrees ==
    pc \in {"returned", "create"} => outcome = Validate(impl, content)

(***************************************************************************)
(* Repeated calls of main.py validate_jsonl                                *)
(***************************************************************************)
\* Longest text, in lines, of the repeated calls.
MaxPureLines == 2

PureTexts == UNION {[1..n -> {Blank, Bad, Chat, Legacy}] : n \in 0..MaxPureLines}

\* keep the call that just returned for a later comparison, or keep the
\* older one
Remember(keep) ==
    IF pc = "returned" /\ keep
    THEN [content |-> content, outcome |-> outcome]
    ELSE remembered

\* validate_jsonl_call with line_count kept from the call before, as if it
\* were module state
validate_jsonl_call_keeps_count ==
    /\ pc \in {"idle", "returned"}
    /\ \E t \in PureTexts, keep \in BOOLEAN :
         /\ remembered' = Remember(keep)
         /\ content' = t
         /\ lines' = StripSplit(t)
    /\ impl' = "web"
    /\ line_num' = 0
    /\ format_type' = None
    /\ pc' = "loop"
    /\ UNCHANGED <<line_count, outcome, created, response, detail>>
    /\ UNCHANGED <<eqvars, waitvars, delvars, apivars>>

\* A call of main.py validate_jsonl, after none or after an earlier call has
\* returned: the statements before the loop give the locals their values.
validate_jsonl_call ==
    /\ pc \in {"idle", "returned"}
    /\ \E t \in PureTexts, keep \in BOOLEAN :
         /\ remembered' = Remember(keep)
         /\ content' = t
         /\ lines' = StripSplit(t)
    /\ impl' = "web"
    /\ line_num' = 0
    /\ line_count' = 0
    /\ format_type' = None
    /\ pc' = "loop"
    /\ UNCHANGED <<outcome, created, response, detail>>
    /\ UNCHANGED <<eqvars, waitvars, delvars, apivars>>

NextPure ==
    \/ validate_jsonl_call
    \/ ValidateLine
    \/ ValidateReturn

SpecPure == Init /\ [][NextPure]_vars

(***************************************************************************)
(* openai_finetune.py wait_for_completion                                  *)
(***************************************************************************)
\* The retrieve calls are counted up to this number.
MaxPolls == 3

\* statuses on which the loop breaks
Terminal == {"succeeded", "failed", "cancelled"}

\* statuses of a job that is still going on, in the order the remote service
\* goes through them
Pending == <<"validating_files", "queued", "running">>

PendingSet == {Pending[i] : i \in 1..Len(Pending)}

Rank(s) == IF s \in Terminal THEN Len(Pending) + 1
           ELSE CHOOSE i \in 1..Len(Pending) : Pending[i] = s

\* wait_for_completion up to the loop: without OPENAI_API_KEY it prints an
\* error and returns; the job is in some state at the remote service.
WaitStart ==
    /\ pc = "idle"
    /\ \E api_key \in BOOLEAN, js \in PendingSet \cup Terminal :
         /\ job_status' = js
         /\ IF api_key
            THEN pc' = "poll" /\ response' = "-"
            ELSE pc' = "done" /\ response' = "no_api_key"
    /\ UNCHANGED <<status, retrieves>>
    /\ UNCHANGED <<impl, content, lines, line_num, line_count, format_type,
                   outcome, created, detail>>
    /\ UNCHANGED <<purevars, eqvars, delvars, apivars>>

\* Retrieve without the `elif status == "cancelled"` branch
Retrieve_no_cancelled ==
    /\ pc = "poll"
    /\ retrieves' = IF retrieves < MaxPolls THEN retrieves + 1 ELSE retrieves
    /\ \E raises \in BOOLEAN :
         IF raises
         THEN /\ pc' = "done"
              /\ response' = "error"
              /\ UNCHANGED status
         ELSE /\ status' = job_status
              /\ IF job_status \in {"succeeded", "failed"}
                 THEN pc' = "done" /\ response' = job_status
                 ELSE pc' = "sleep" /\ response' = "waiting"
    /\ UNCHANGED job_status
    /\ UNCHANGED <<impl, content, lines, line_num, line_count, format_type,
                   outcome, created, detail>>
    /\ UNCHANGED <<purevars, eqvars, delvars, apivars>>

\* One pass of the body of `while True` up to time.sleep:
\* client.fine_tuning.jobs.retrieve(job_id) raises, or returns the job, and
\* the loop breaks on the three final statuses.
Retrieve ==
    /\ pc = "poll"
    /\ retrieves' = IF retrieves < MaxPolls THEN retrieves + 1 ELSE retrieves
    /\ \E raises \in BOOLEAN :
         IF raises
         THEN /\ pc' = "done"
              /\ response' = "error"
              /\ UNCHANGED status
         ELSE /\ status' = job_status
              /\ IF job_status \in Terminal
                 THEN pc' = "done" /\ response' = job_status
                 ELSE pc' = "sleep" /\ response' = "waiting"
    /\ UNCHANGED job_status
    /\ UNCHANGED <<impl, content, lines, line_num, line_count, format_type,
                   outcome, created, detail>>
    /\ UNCHANGED <<purevars, eqvars, delvars, apivars>>

\* time.sleep(check_interval), then the next pass
Sleep ==
    /\ pc = "sleep"
    /\ pc' = "poll"
    /\ UNCHANGED <<waitvars, response>>
    /\ UNCHANGED <<impl, content, lines, line_num, line_count, format_type,
                   outcome, created, detail>>
    /\ UNCHANGED <<purevars, eqvars, delvars, apivars>>

\* The remote service moves the job on while the program waits; a final
\* status is never left.
JobAdvance ==
    /\ pc \in {"poll", "sleep"}
    /\ job_status \notin Terminal
    /\ \E js \in PendingSet \cup Terminal :
         /\ Rank(js) > Rank(job_status)
         /\ job_status' = js
    /\ UNCHANGED <<status, retrieves>>
    /\ UNCHANGED upvars
    /\ UNCHANGED <<purevars, eqvars, delvars, apivars>>

\* wait_for_completion has returned
WaitFinish ==
    /\ pc = "done"
    /\ pc' = "idle"
    /\ response' = "-"
    /\ job_status' = "-"
    /\ status' = "-"
    /\ retrieves' = 0
    /\ UNCHANGED <<impl, content, lines, line_num, line_count, format_type,
                   outcome, created, detail>>
    /\ UNCHANGED <<purevars, eqvars, delvars, apivars>>

NextWait ==
    \/ WaitStart
    \/ Retrieve
    \/ Sleep
    \/ JobAdvance
    \/ WaitFinish

\* The program keeps running: a pending retrieve is issued and a sleep ends.
SpecWait ==
    Init /\ [][NextWait]_vars /\ WF_vars(Retrieve) /\ WF_vars(Sleep)

(***************************************************************************)
(* The two validate_jsonl on one LF-separated text                         *)
(***************************************************************************)
\* Longest LF-separated text, in lines, given to both functions.
MaxEqLines == 2

\* A line of an LF-separated text: rec is what json.loads makes of the whole
\* line; cr tells that a carriage return stands between two tokens of the
\* record, where JSON allows white space.
EqLine(rec, cr) == [rec |-> rec, cr |-> cr]

EqLineSet ==
    {EqLine(l, FALSE) : l \in LineSet} \cup
    {EqLine(l, TRUE) : l \in {l \in LineSet : l.t = "map"}}

EqTexts == UNION {[1..n -> EqLineSet] : n \in 0..MaxEqLines}

\* content.split('\n') of main.py: only '\n' ends a line, and json.loads
\* skips a carriage return between tokens
split_lf(t) == [i \in 1..Len(t) |-> t[i].rec]

\* open(file_path, 'r', encoding='utf-8') reads with universal newlines: a
\* lone '\r' ends a line too, so a record with a carriage return between its
\* tokens arrives as two lines, neither of which json.loads can parse
RECURSIVE universal_newlines(_)
universal_newlines(t) ==
    IF t = <<>> THEN <<>>
    ELSE (IF Head(t).cr THEN <<Bad, Bad>> ELSE <<Head(t).rec>>)
         \o universal_newlines(Tail(t))

\* a text arrives
EqInput ==
    /\ pc = "idle"
    /\ \E t \in EqTexts : lf_text' = t
    /\ pc' = "read"
    /\ UNCHANGED <<web_result, cli_result>>
    /\ UNCHANGED <<impl, content, lines, line_num, line_count, format_type,
                   outcome, created, response, detail>>
    /\ UNCHANGED <<purevars, waitvars, delvars, apivars>>

\* main.py validate_jsonl(content) with the text as content
EqWeb ==
    /\ pc = "read"
    /\ web_result = NoOutcome
    /\ web_result' = Validate("web", split_lf(lf_text))
    /\ UNCHANGED <<lf_text, cli_result>>
    /\ UNCHANGED upvars
    /\ UNCHANGED <<purevars, waitvars, delvars, apivars>>

\* openai_upload_file.py validate_jsonl(file_path) on a file with the text
EqCli ==
    /\ pc = "read"
    /\ cli_result = NoOutcome
    /\ cli_result' = Validate("cli", universal_newlines(lf_text))
    /\ UNCHANGED <<lf_text, web_result>>
    /\ UNCHANGED upvars
    /\ UNCHANGED <<purevars, waitvars, delvars, apivars>>

\* both have returned
EqFinish ==
    /\ pc = "read"
    /\ web_result # NoOutcome
    /\ cli_result # NoOutcome
    /\ pc' = "idle"
    /\ lf_text' = <<>>
    /\ web_result' = NoOutcome
    /\ cli_result' = NoOutcome
    /\ UNCHANGED <<impl, content, lines, line_num, line_count, format_type,
                   outcome, created, response, detail>>
    /\ UNCHANGED <<purevars, waitvars, delvars, apivars>>

NextEquiv ==
    \/ EqInput
    \/ EqWeb
    \/ EqCli
    \/ EqFinish

SpecEquiv == Init /\ [][NextEquiv]_vars

(***************************************************************************)
(* The CLI deletions: openai_finetune.py delete_model and                  *)
(* openai_list_files.py delete_file                                        *)
(***************************************************************************)
\* Longest answer, in characters, the operator types.
MaxAnswerLen == 3

\* characters of an answer
Chars == {"y", "e", "s", "Y", "E", "S", "n", " "}

Answers == UNION {[1..n -> Chars] : n \in 0..MaxAnswerLen}

\* str.lower() for one character
lower_char(c) ==
    IF c = "Y" THEN "y" ELSE IF c = "E" THEN "e" ELSE IF c = "S" THEN "s" ELSE c

\* str.lower()
lower(a) == [i \in 1..Len(a) |-> lower_char(a[i])]

\* str.strip(): the white space at both ends is removed
RECURSIVE strip(_)
strip(a) ==
    IF a = <<>> THEN a
    ELSE IF Head(a) = " " THEN strip(Tail(a))
    ELSE IF a[Len(a)] = " " THEN strip(SubSeq(a, 1, Len(a) - 1))
    ELSE a

\* ["yes", "y"]
Yes == {<<"y", "e", "s">>, <<"y">>}

\* delete_model / delete_file up to the prompt: without OPENAI_API_KEY both
\* print an error and return.
DeleteStart ==
    /\ pc = "idle"
    /\ \E op \in {"model", "file"}, api_key \in BOOLEAN :
         /\ target' = op
         /\ IF ~api_key THEN pc' = "done" /\ response' = "no_api_key"
            ELSE /\ pc' = IF op = "file" THEN "retrieve" ELSE "confirm"
                 /\ response' = "-"
    /\ UNCHANGED <<confirmation, resource, deletes>>
    /\ UNCHANGED <<impl, content, lines, line_num, line_count, format_type,
                   outcome, created, detail>>
    /\ UNCHANGED <<purevars, eqvars, waitvars, apivars>>

\* delete_file: file = client.files.retrieve(file_id) inside the try block
FileRetrieve ==
    /\ pc = "retrieve"
    /\ \E raises \in BOOLEAN :
         IF raises THEN pc' = "done" /\ response' = "error"
         ELSE pc' = "confirm" /\ UNCHANGED response
    /\ UNCHANGED delvars
    /\ UNCHANGED <<impl, content, lines, line_num, line_count, format_type,
                   outcome, created, detail>>
    /\ UNCHANGED <<purevars, eqvars, waitvars, apivars>>

\* Confirm that goes on unless the answer is no or n
Confirm_unless_no ==
    /\ pc = "confirm"
    /\ \E a \in Answers :
         /\ confirmation' = a
         /\ IF lower(strip(a)) \notin {<<"n">>}
            THEN pc' = "delete" /\ UNCHANGED response
            ELSE pc' = "done" /\ response' = "cancelled"
    /\ UNCHANGED <<target, resource, deletes>>
    /\ UNCHANGED <<impl, content, lines, line_num, line_count, format_type,
                   outcome, created, detail>>
    /\ UNCHANGED <<purevars, eqvars, waitvars, apivars>>

\* The prompt and the test of the answer:
\*   delete_model: input(...).strip().lower() not in ["yes", "y"] -> cancel
\*   delete_file:  input(...) ; confirm.lower() in ['yes', 'y']   -> delete
Confirm ==
    /\ pc = "confirm"
    /\ \E a \in Answers :
         /\ confirmation' = a
         /\ IF (IF target = "model" THEN lower(strip(a)) ELSE lower(a)) \in Yes
            THEN pc' = "delete" /\ UNCHANGED response
            ELSE pc' = "done" /\ response' = "cancelled"
    /\ UNCHANGED <<target, resource, deletes>>
    /\ UNCHANGED <<impl, content, lines, line_num, line_count, format_type,
                   outcome, created, detail>>
    /\ UNCHANGED <<purevars, eqvars, waitvars, apivars>>

\* client.models.delete(model_id) / client.files.delete(file_id) inside
\* try/except Exception
RemoteDelete ==
    /\ pc = "delete"
    /\ deletes' = deletes + 1
    /\ \E raises \in BOOLEAN :
         IF raises THEN response' = "error" /\ UNCHANGED resource
         ELSE response' = "deleted" /\ resource' = FALSE
    /\ pc' = "done"
    /\ UNCHANGED <<target, confirmation>>
    /\ UNCHANGED <<impl, content, lines, line_num, line_count, format_type,
                   outcome, created, detail>>
    /\ UNCHANGED <<purevars, eqvars, waitvars, apivars>>

\* the command is over
DeleteFinish ==
    /\ pc = "done"
    /\ pc' = "idle"
    /\ response' = "-"
    /\ target' = "-"
    /\ confirmation' = <<>>
    /\ resource' = TRUE
    /\ deletes' = 0
    /\ UNCHANGED <<impl, content, lines, line_num, line_count, format_type,
                   outcome, created, detail>>
    /\ UNCHANGED <<purevars, eqvars, waitvars, apivars>>

NextDelete ==
    \/ DeleteStart
    \/ FileRetrieve
    \/ Confirm
    \/ RemoteDelete
    \/ DeleteFinish

SpecDelete == Init /\ [][NextDelete]_vars

(***************************************************************************)
(* The /api/* endpoints of main.py                                         *)
(***************************************************************************)
\* Longest chat message, in characters.
MaxMsgLen == 2

Endpoints == {"upload", "delete_file", "create_job", "job_status",
              "cancel_job", "delete_model", "chat"}

\* A field of the JSON body: k = "absent": the key is missing; k = "null":
\* the value is null; k = "str": the value is the string s.
Absent == [k |-> "absent", s |-> <<>>]
Null == [k |-> "null", s |-> <<>>]
Str(s) == [k |-> "str", s |-> s]

MsgStrings == UNION {[1..n -> {" ", "h"}] : n \in 0..MaxMsgLen}

Bodies ==
    [model : {Absent, Null, Str(<<>>), Str(<<"m">>)},
     message : {Absent, Null} \cup {Str(s) : s \in MsgStrings},
     system_prompt : {Absent, Null, Str(<<>>), Str(<<" ">>), Str(<<"s">>)}]

\* data.get(key): a missing key and a null both give None
\* `not value` for None and for the empty string
Falsy(field) == field.k # "str" \/ field.s = <<>>

\* data.get("message", "").strip() raises AttributeError when the value is
\* not a string; a missing key gives the default ""
StripRaises(field) == field.k = "null"

\* a remote API call
Call(name, model, messages) == [name |-> name, model |-> model, messages |-> messages]

\* messages = []; if system_prompt: append system; append user
ChatMessages(b) ==
    (IF Falsy(b.system_prompt) THEN <<>>
     ELSE <<[role |-> "system", content |-> b.system_prompt.s]>>)
    \o <<[role |-> "user", content |-> strip(b.message.s)]>>

\* the remote calls of an endpoint other than upload, in order
RemoteCalls(ep, b) ==
    IF ep = "chat"
        THEN <<Call("chat.completions.create", b.model.s, ChatMessages(b))>>
    ELSE IF ep = "delete_file" THEN <<Call("files.delete", <<>>, <<>>)>>
    ELSE IF ep = "create_job" THEN <<Call("fine_tuning.jobs.create", <<>>, <<>>)>>
    ELSE IF ep = "job_status"
        THEN <<Call("fine_tuning.jobs.retrieve", <<>>, <<>>),
               Call("fine_tuning.jobs.list_events", <<>>, <<>>)>>
    ELSE IF ep = "cancel_job" THEN <<Call("fine_tuning.jobs.cancel", <<>>, <<>>)>>
    ELSE <<Call("models.delete", <<>>, <<>>)>>

\* the process starts with OPENAI_API_KEY unset, empty or set
InitApi ==
    /\ UpIdle
    /\ PureIdle /\ EqIdle /\ WaitIdle /\ DelIdle
    /\ OPENAI_API_KEY \in {"unset", "empty", "set"}
    /\ endpoint = "-"
    /\ body = NoData
    /\ remote_calls = <<>>

\* ApiEnter in which upload_file does not look at the client
ApiEnter_upload_unchecked ==
    /\ pc = "idle"
    /\ \E ep \in Endpoints :
         /\ endpoint' = ep
         /\ impl' = IF ep = "upload" THEN "web" ELSE "none"
         /\ IF OPENAI_API_KEY # "set" /\ ep # "upload"
            THEN /\ pc' = "done"
                 /\ response' = "500"
                 /\ detail' = Msg("no_api_key")
            ELSE /\ pc' = IF ep = "upload" THEN "read"
                          ELSE IF ep = "chat" THEN "body" ELSE "call"
                 /\ UNCHANGED <<response, detail>>
    /\ body' = NoData
    /\ remote_calls' = <<>>
    /\ UNCHANGED OPENAI_API_KEY
    /\ UNCHANGED <<content, created>>
    /\ UNCHANGED valvars
    /\ UNCHANGED <<purevars, eqvars, waitvars, delvars>>

\* The first two statements of every /api/* handler:
\*   client = get_openai_client()    (None when the key is unset or empty)
\*   if not client: raise HTTPException(status_code=500, ...)
ApiEnter ==
    /\ pc = "idle"
    /\ \E ep \in Endpoints :
         /\ endpoint' = ep
         /\ impl' = IF ep = "upload" THEN "web" ELSE "none"
         /\ IF OPENAI_API_KEY # "set"
            THEN /\ pc' = "done"
                 /\ response' = "500"
                 /\ detail' = Msg("no_api_key")
            ELSE /\ pc' = IF ep = "upload" THEN "read"
                          ELSE IF ep = "chat" THEN "body" ELSE "call"
                 /\ UNCHANGED <<response, detail>>
    /\ body' = NoData
    /\ remote_calls' = <<>>
    /\ UNCHANGED OPENAI_API_KEY
    /\ UNCHANGED <<content, created>>
    /\ UNCHANGED valvars
    /\ UNCHANGED <<purevars, eqvars, waitvars, delvars>>

\* chat_api from `data = await request.json()` to the test of model and
\* message.  A body that is not JSON makes request.json() raise, a message
\* that is not a string makes .strip() raise; neither is caught.
ChatBody ==
    /\ pc = "body"
    /\ \E is_json \in BOOLEAN, b \in Bodies :
         IF ~is_json
         THEN /\ pc' = "done"
              /\ response' = "500"
              /\ detail' = Msg("unhandled")
              /\ UNCHANGED body
         ELSE /\ body' = b
              /\ IF StripRaises(b.message)
                 THEN /\ pc' = "done"
                      /\ response' = "500"
                      /\ detail' = Msg("unhandled")
                 ELSE IF Falsy(b.model) \/ strip(b.message.s) = <<>>
                 THEN /\ pc' = "done"
                      /\ response' = "400"
                      /\ detail' = Msg("model_and_message_required")
                 ELSE /\ pc' = "call"
                      /\ UNCHANGED <<response, detail>>
    /\ UNCHANGED <<OPENAI_API_KEY, endpoint, remote_calls>>
    /\ UNCHANGED <<impl, content, created>>
    /\ UNCHANGED valvars
    /\ UNCHANGED <<purevars, eqvars, waitvars, delvars>>

\* The try block of an endpoint other than upload: its remote calls, the
\* n-th of which may raise; `except Exception` answers 500.
ApiCall ==
    /\ pc = "call"
    /\ LET calls == RemoteCalls(endpoint, body) IN
       \E n \in 1..Len(calls), raises \in BOOLEAN :
         /\ remote_calls' = SubSeq(calls, 1, IF raises THEN n ELSE Len(calls))
         /\ IF raises
            THEN response' = "500" /\ detail' = Msg("remote_error")
            ELSE response' = "200" /\ detail' = Msg("success")
    /\ pc' = "done"
    /\ UNCHANGED <<OPENAI_API_KEY, endpoint, body>>
    /\ UNCHANGED <<impl, content, created>>
    /\ UNCHANGED valvars
    /\ UNCHANGED <<purevars, eqvars, waitvars, delvars>>

NextApi ==
    \/ ApiEnter
    \/ ChatBody
    \/ ApiCall
    \/ ReadContent
    \/ ValidateLine
    \/ ValidateReturn
    \/ UploadGate
    \/ RemoteCreate
    \/ Finish

SpecApi == InitApi /\ [][NextApi]_vars

(***************************************************************************)
(* Vocabulary of the properties                                            *)
(***************************************************************************)
NonBlankCount(text) == Cardinality({i \in 1..Len(text) : ~IsBlank(text[i])})

\* {"messages": [{"role": .., "content": ..}, ...]} with at least one entry
IsChatRecord(line) ==
    /\ line.t = "map"
    /\ "messages" \in line.has
    /\ line.mlist
    /\ Len(line.msgs) > 0
    /\ \A j \in 1..Len(line.msgs) :
         /\ line.msgs[j].t = "map"
         /\ {"role", "content"} \subseteq line.msgs[j].has

\* {"prompt": .., "completion": ..}
IsLegacyRecord(line) ==
    /\ line.t = "map"
    /\ {"prompt", "completion"} \subseteq line.has
    /\ "messages" \notin line.has

AllChat(text) ==
    /\ NonBlankCount(text) > 0
    /\ \A i \in 1..Len(text) : IsBlank(text[i]) \/ IsChatRecord(text[i])

AllLegacy(text) ==
    /\ NonBlankCount(text) > 0
    /\ \A i \in 1..Len(text) : IsBlank(text[i]) \/ IsLegacyRecord(text[i])

Prefix(text, n) == SubSeq(text, 1, n)

\* position, counted over all lines of the text, of the first line whose
\* presence makes the text unacceptable; 0 when the text is accepted
FirstOffending(i, text) ==
    LET bad == {n \in 1..Len(text) : Validate(i, Prefix(text, n)).st # "ok"} IN
    IF bad = {} THEN 0 ELSE CHOOSE n \in bad : \A m \in bad : n <= m

\* the text with one blank line put after its first i lines
InsertBlank(text, i) ==
    Prefix(text, i) \o <<Blank>> \o SubSeq(text, i + 1, Len(text))

\* position in the text of the line the loop took last
RawLineNum ==
    IF impl = "web" /\ LeadingBlanks(content) < Len(content)
    THEN line_num + LeadingBlanks(content) ELSE line_num

(***************************************************************************)
(* Properties                                                              *)
(***************************************************************************)

\* C1: when every non-blank line of the text is a valid chat record, or
\* every non-blank line is a valid legacy record (and there is at least one
\* record), validate_jsonl returns ok = true, the label of that format and a
\* record count equal to the number of non-blank lines of the text.
C1_ValidInputAccepted ==
    pc = "returned" =>
      /\ AllChat(content) =>
           outcome = Outcome("ok", "", 0, "chat", NonBlankCount(content))
      /\ AllLegacy(content) =>
           outcome = Outcome("ok", "", 0, "legacy", NonBlankCount(content))

C1_Witness ==
    /\ pc = "returned"
    /\ AllChat(content)
    /\ NonBlankCount(content) = 2
    /\ Len(content) = 3
    /\ outcome.st = "ok"
    /\ outcome.count = 2

\* C2: whenever validate_jsonl rejects a text with a message that names a
\* line, the number named is the position, counted over all lines of the
\* text including the blank ones, of the first offending line.
C2_LineNumberIsPosition ==
    (pc = "returned" /\ outcome.st = "rejected" /\ outcome.kind # "exception")
      => outcome.line = FirstOffending(impl, content)

\* first non-blank line among the first n lines of ls, 0 when there is none
FirstRecord(ls, n) ==
    LET rec == {i \in 1..n : ~IsBlank(ls[i])} IN
    IF rec = {} THEN 0 ELSE CHOOSE i \in rec : \A j \in rec : i <= j

\* a parsed record with neither messages nor both prompt and completion
Unrecognized(line) ==
    /\ line.t \in {"str", "list", "map"}
    /\ "messages" \notin line.has
    /\ ~({"prompt", "completion"} \subseteq line.has)

\* C3: when the first non-blank parsed line has neither a messages key nor
\* both prompt and completion, the format stays undetermined for the rest of
\* the pass and no format-specific check rejects any later record.
C3_DetectionOnlyOnFirstRecord ==
    (/\ pc \in {"loop", "returned"}
     /\ FirstRecord(lines, line_num) # 0
     /\ Unrecognized(lines[FirstRecord(lines, line_num)]))
      => /\ format_type = None
         /\ outcome.st = "rejected" => outcome.kind = "json"

\* C4: within one pass the format, once locked to chat or legacy, is never
\* changed by a later record, and a later mapping that lacks messages (chat
\* lock) or lacks prompt or completion (legacy lock) is rejected at its line.
C4_FormatLockedOnce ==
    [][(pc = "loop" /\ format_type # None /\ line_num < Len(lines)) =>
         LET line == lines[line_num + 1] IN
         /\ format_type' = format_type
         /\ (format_type = "chat" /\ line.t = "map" /\ "messages" \notin line.has)
              => outcome' = Outcome("rejected", "nokey", line_num + 1, "", 0)
         /\ (format_type = "legacy" /\ line.t = "map"
               /\ ~({"prompt", "completion"} \subseteq line.has))
              => outcome' = Outcome("rejected", "legacy", line_num + 1, "", 0)]_vars

C4_Witness ==
    /\ pc = "returned"
    /\ line_num = 2
    /\ lines[1] = Chat
    /\ lines[2] = Legacy
    /\ format_type = "chat"
    /\ outcome = Outcome("rejected", "nokey", 2, "", 0)

\* C5: validate_jsonl returns a result for every text and never lets an
\* exception escape to its caller.
C5_NeverRaises == outcome.st # "raised"

\* C6: for a text with no non-blank line the format is undetermined, the
\* record count is 0 and the result is not a success carrying a format label.
C6_EmptyInputHasNoLabel ==
    (pc = "returned" /\ NonBlankCount(content) = 0) =>
      /\ format_type = None
      /\ outcome.count = 0
      /\ ~(outcome.st = "ok" /\ outcome.label \in {"chat", "legacy"})

\* C7: once the format is locked to chat, a record passes only if its
\* messages value is a non-empty list of mappings that each have a role and
\* a content key.
C7_ChatRecordWellFormed ==
    (/\ pc = "loop"
     /\ line_num >= 1
     /\ ~IsBlank(lines[line_num])
     /\ format_type = "chat")
      => IsChatRecord(lines[line_num])

\* C8: validation is fail-fast: when the first offending line is line N the
\* result is returned at line N, no later line is taken, the result is the
\* same for every text that agrees on lines 1..N, and the message names no
\* line after N.
C8_FailFast ==
    (pc = "returned" /\ outcome.st # "ok") =>
      LET N == FirstOffending(impl, content) IN
      /\ N >= 1
      /\ RawLineNum = N
      /\ outcome.line <= N
      /\ Validate(impl, Prefix(content, N)) = outcome
      /\ \A x \in LineSet : Validate(impl, Prefix(content, N) \o <<x>>) = outcome

C8_Witness ==
    /\ pc = "returned"
    /\ impl = "web"
    /\ Len(content) = 3
    /\ content[1] = Chat
    /\ content[2] = Bad
    /\ content[3] = ChatEmpty
    /\ line_num = 2
    /\ outcome = Outcome("rejected", "json", 2, "", 0)

\* C9: putting a blank line anywhere in the text, also before the first
\* record, changes neither the verdict, nor the format label, nor the record
\* count, and no rejection message names a blank line.
C9_BlankLinesIrrelevant ==
    pc = "returned" =>
      /\ (outcome.st = "rejected" /\ outcome.line >= 1)
           => ~IsBlank(content[outcome.line])
      /\ \A i \in 0..Len(content) :
           LET r == Validate(impl, InsertBlank(content, i)) IN
           /\ r.st = outcome.st
           /\ r.label = outcome.label
           /\ r.count = outcome.count

\* C10: the remote files.create call is issued only after validate_jsonl
\* returned ok = true for the text being uploaded; after a rejection no
\* create call is made and the caller gets the validation message, with
\* HTTP 400 from the web endpoint and None from the CLI.
C10_CreateOnlyAfterValid ==
    /\ (pc = "create" \/ created > 0) =>
         /\ outcome.st = "ok"
         /\ outcome = Validate(impl, content)
    /\ (pc = "done" /\ outcome.st = "rejected") =>
         /\ created = 0
         /\ response = (IF impl = "web" THEN "400" ELSE "None")
         /\ detail = outcome

C10_Witness ==
    /\ pc = "done"
    /\ impl = "web"
    /\ created = 1
    /\ response = "200"
    /\ outcome.st = "ok"
    /\ outcome.count = 2

\* C11: main.py validate_jsonl is a deterministic function of its text: a
\* call returns what any earlier call with the same text returned, whatever
\* calls came in between, and while it runs nothing but its own locals and
\* its result changes.
C11_Deterministic ==
    /\ [](pc = "returned" /\ remembered # NoCall /\ remembered.content = content
            => outcome = remembered.outcome)
    /\ [][pc = "loop" => UNCHANGED <<impl, content, created, response, detail,
                                     extvars>>]_vars

C11_Witness ==
    /\ pc = "returned"
    /\ remembered # NoCall
    /\ remembered.content = content
    /\ content = <<Chat, Bad>>
    /\ outcome = remembered.outcome
    /\ outcome.st = "rejected"

ChatViolation(line) ==
    IF "messages" \notin line.has THEN "nokey"
    ELSE IF ~line.mlist THEN "notlist"
    ELSE IF Len(line.msgs) = 0 THEN "empty"
    ELSE "badmsg"

\* C13: when a record fails chat validation the rejection names the one of
\* the four violations that occurred (messages missing, messages not a
\* sequence, messages empty, an element without role or content), so that
\* an empty messages list is told apart from a messages value that is not a
\* sequence.
C13_ReasonIdentifiesViolation ==
    (/\ pc = "returned"
     /\ outcome.st = "rejected"
     /\ outcome.kind \notin {"json", "exception"}
     /\ format_type = "chat"
     /\ lines[line_num].t = "map")
      => outcome.kind = ChatViolation(lines[line_num])

\* C14: wait_for_completion stops exactly when a poll returns succeeded,
\* failed or cancelled or when a poll raises: once the remote job has one of
\* the three statuses the loop eventually ends, after it has ended no
\* further retrieve is issued, and a poll that returns any other status is
\* followed by the wait for the next poll.
C14_PollUntilTerminal ==
    /\ (pc \in {"poll", "sleep"} /\ job_status \in Terminal) ~> (pc = "done")
    /\ [][(pc = "done" /\ pc' # "idle") => UNCHANGED <<retrieves, status>>]_vars
    /\ [](pc = "sleep" => status \notin Terminal /\ response = "waiting")
    /\ [](pc = "done" => \/ response \in {"error", "no_api_key"}
                         \/ (status \in Terminal /\ response = status))

C14_Witness ==
    /\ pc = "done"
    /\ retrieves = 3
    /\ status = "cancelled"
    /\ response = "cancelled"

\* every non-blank line parses to a JSON object and every element of a
\* messages list is an object
ObjectsOnly(t) ==
    \A i \in 1..Len(t) :
      \/ IsBlank(t[i].rec)
      \/ /\ t[i].rec.t = "map"
         /\ \A j \in 1..Len(t[i].rec.msgs) : t[i].rec.msgs[j].t = "map"

\* C15: for an LF-separated text whose non-blank lines all parse to JSON
\* objects with objects as messages elements, validate_jsonl of main.py on
\* the text and validate_jsonl of openai_upload_file.py on a file holding it
\* give the same verdict and, on success, the same format and record count.
C15_ValidatorsAgree ==
    (web_result # NoOutcome /\ cli_result # NoOutcome /\ ObjectsOnly(lf_text))
      => /\ (web_result.st = "ok") <=> (cli_result.st = "ok")
         /\ web_result.st = "ok" =>
              /\ web_result.label = cli_result.label
              /\ web_result.count = cli_result.count

\* the answer is yes or y, whatever the case of its letters
SaysYes(a) == lower(a) \in Yes

\* C16 as stated: the remote delete is called only after the operator's
\* answer is yes or y (case-insensitive); for any other answer no remote
\* delete call is made and the remote resource is left unchanged.
C16_DeleteOnlyAfterYes ==
    /\ (pc = "delete" \/ deletes > 0) => SaysYes(confirmation)
    /\ (pc = "done" /\ response = "cancelled") =>
         /\ ~SaysYes(confirmation)
         /\ deletes = 0
         /\ resource

\* C16 as amended: the remote delete is called only after the operator's
\* answer is yes or y (case-insensitive), where delete_model first removes
\* the white space around the answer and delete_file does not; for any
\* other answer no remote delete call is made and the remote resource is
\* left unchanged.
C16_DeleteOnlyAfterConfirmedYes ==
    LET yes == IF target = "model" THEN SaysYes(strip(confirmation))
               ELSE SaysYes(confirmation) IN
    /\ (pc = "delete" \/ deletes > 0) => yes
    /\ (pc = "done" /\ response = "cancelled") =>
         /\ ~yes
         /\ deletes = 0
         /\ resource
    /\ (deletes = 0 /\ pc # "idle") => resource

C16_Witness ==
    /\ pc = "done"
    /\ target = "model"
    /\ confirmation = <<" ", "Y">>
    /\ deletes = 1
    /\ ~resource

\* C17: with OPENAI_API_KEY unset or empty every /api/* endpoint answers
\* HTTP 500 and makes no remote call, and the test comes first: neither the
\* uploaded file nor the chat body is read or validated before it.
C17_NoKeyNoCall ==
    (pc # "idle" /\ OPENAI_API_KEY # "set") =>
      /\ pc = "done"
      /\ response = "500"
      /\ detail = Msg("no_api_key")
      /\ remote_calls = <<>>
      /\ created = 0
      /\ outcome = NoOutcome
      /\ lines = <<>>
      /\ body = NoData

C17_Witness ==
    /\ pc = "done"
    /\ endpoint = "upload"
    /\ OPENAI_API_KEY = "empty"
    /\ response = "500"
    /\ created = 0

\* C18: chat_api answers HTTP 400 and makes no remote call when the model is
\* missing or empty or the message is empty after trimming white space;
\* otherwise it makes exactly one remote chat-completion call whose message
\* list is the system prompt (only when it is non-empty) followed by the
\* user message.
C18_ChatRequestChecked ==
    (pc = "done" /\ endpoint = "chat" /\ OPENAI_API_KEY = "set" /\ body # NoData) =>
      IF \/ body.model.k # "str" \/ body.model.s = <<>>
         \/ body.message.k = "absent"
         \/ (body.message.k = "str" /\ strip(body.message.s) = <<>>)
      THEN response = "400" /\ remote_calls = <<>>
      ELSE /\ Len(remote_calls) = 1
           /\ remote_calls[1].name = "chat.completions.create"
           /\ remote_calls[1].messages =
                (IF body.system_prompt.k = "str" /\ body.system_prompt.s # <<>>
                 THEN <<[role |-> "system", content |-> body.system_prompt.s]>>
                 ELSE <<>>)
                \o <<[role |-> "user", content |-> strip(body.message.s)]>>

====
